---- MODULE Spec2Model ----
(***************************************************************************)
(* A model of tempo-dex-map.                                               *)
(*                                                                         *)
(*   - buildTree (tempo-app/src/fetchTokens.ts): the pure projection of a  *)
(*     flat token list and a TVL threshold to a tree, with its helpers     *)
(*     countDescendants, subtreeTvl and sortChildren.                      *)
(*   - App.load / flush / scheduleFlush (tempo-app/src/App.tsx): the       *)
(*     ingestion of genesis and factory tokens into the allTokens state.   *)
(*                                                                         *)
(* Addresses are modelled as integers.  0 is zeroAddress.  A token address *)
(* k >= 1 has two spellings: k itself (lower case, the form of every map   *)
(* key) and k + CaseShift (the checksummed form getAddress                 *)
(* returns, which is what the records carry).  Token values are integers   *)
(* in units of 0.01, so the 0.01 tolerance of sortChildren is 1.  The      *)
(* display strings name, symbol and currency are copied by buildTree and   *)
(* never read; they are left out of the records.                           *)
(***************************************************************************)
EXTENDS Integers, Sequences, FiniteSets, TLC

\* the caller of buildTree: its token list, its threshold, the tree built
VARIABLES tokens, minTvl, tree

\* App: React state (allTokens, progress, done, error, networkId), the refs
\* pendingRef and flushTimer, the timeouts pending in the timer queue, and
\* the calls of load
VARIABLES allTokens, progress, done, error, networkId, pendingRef, flushTimer,
          timers, loads, run

treeVars == <<tokens, minTvl, tree>>

loadVars == <<allTokens, progress, done, error, networkId, pendingRef, flushTimer,
              timers, loads, run>>

\* one run of streamFactoryTokens: the chain behind the transport, the
\* position of the run, its locals ranges, rangeIdx and totalFetched, the
\* four workers, the calls of onBatch and onDone it has made, and the block
\* ranges whose logs getLogs has returned to it
VARIABLES chain, main, ranges, rangeIdx, totalFetched, workers, batchCount, claimed,
          onDoneCount, failures, retrieved

streamVars == <<chain, main, ranges, rangeIdx, totalFetched, workers, batchCount,
                claimed, onDoneCount, failures, retrieved>>

\* one call of batchFetchSupplies: its argument, its loop index i (offset),
\* its Map result, its position, and the answers the transport has given
VARIABLES addresses, offset, result, supplyPc, responses

supplyVars == <<addresses, offset, result, supplyPc, responses>>

\* the shareable view: the excluded symbols (React state of App), the query
\* string handleShare has built, and what parseInitialParams made of it
VARIABLES excluded, search, initialParams

shareVars == <<excluded, search, initialParams>>

vars == <<treeVars, loadVars, streamVars, supplyVars, shareVars>>

-----------------------------------------------------------------------------
(* Bounds of the model *)

\* number of distinct token addresses; with MaxLen < NumAddr some address is
\* always free to serve as a dangling parent reference
NumAddr == 4

\* longest token list handed to buildTree
MaxLen == 3

\* largest totalSupply of a token, in units of 0.01
MaxValue == 2

\* longest token list handed to buildTree in every spelling of its addresses
MaxCased == 2

\* calls of load in one behaviour: the mount and the restarts
MaxLoads == 3

\* most block ranges (chunks) one run of streamFactoryTokens walks
MaxChunks == 2

\* most block ranges of the run of streamFactoryTokens looked at on its own:
\* more than its four workers
MaxRanges == 5

\* deepest stack of pending sub-ranges of one fetchRange call that is
\* followed
MaxStack == 3

\* most getLogs calls of one run that fail with an error of another kind
MaxFailures == 1

-----------------------------------------------------------------------------
(* The parts of the program a specification leaves at rest *)

\* no run of streamFactoryTokens
StreamParked ==
    /\ chain = [latest |-> 0, limit |-> 1, heavy |-> 0 - 1, created |-> <<0>>]
    /\ main = "idle"
    /\ ranges = <<>>
    /\ rangeIdx = 0
    /\ totalFetched = 0
    /\ workers = <<>>
    /\ batchCount = <<>>
    /\ claimed = <<>>
    /\ onDoneCount = 0
    /\ failures = 0
    /\ retrieved = <<>>

\* no link shared
ShareParked ==
    /\ excluded = <<>>
    /\ search = <<>>
    /\ initialParams = <<>>

\* no call of batchFetchSupplies
SuppliesParked ==
    /\ addresses = <<>>
    /\ offset = 0
    /\ result = <<>>
    /\ supplyPc = "idle"
    /\ responses = <<>>

-----------------------------------------------------------------------------
(* Addresses *)

zeroAddress == 0

\* the distance between the two spellings of an address: more than every
\* address number in use
CaseShift == 2048

\* the checksummed spelling of an address; zeroAddress has no letters
getAddress(k) == IF k = zeroAddress THEN k ELSE k + CaseShift

\* String.prototype.toLowerCase on an address
toLowerCase(a) == IF a >= CaseShift THEN a - CaseShift ELSE a

\* the TokenInfo records the program produces (fetchGenesisTokens, fetchRange)
TokenInfo ==
    [address     : {getAddress(k) : k \in 1..NumAddr},
     quoteToken  : {getAddress(k) : k \in 0..NumAddr},
     totalSupply : 0..MaxValue]

\* the two spellings of an address: lower-case k and k + CaseShift, which
\* for zeroAddress is the spelling with a capital X
Spellings(k) == {k, k + CaseShift}

\* the TokenInfo records buildTree accepts: address and quoteToken are
\* strings, in any spelling
CasedTokenInfo ==
    [address     : UNION {Spellings(k) : k \in 1..NumAddr},
     quoteToken  : UNION {Spellings(k) : k \in 0..NumAddr},
     totalSupply : 0..MaxValue]

\* the thresholds handed to buildTree: no filter (<= 0) and every positive value
Thresholds == (0 - 1)..MaxValue

-----------------------------------------------------------------------------
(* Sequence helpers *)

Range(s) == {s[i] : i \in DOMAIN s}

\* the distinct elements of s in the order of their first occurrence: the
\* iteration order of a JavaScript Set or Map filled by walking s
RECURSIVE InsertionOrder(_)
InsertionOrder(s) ==
    IF s = <<>> THEN <<>>
    ELSE LET front == InsertionOrder(SubSeq(s, 1, Len(s) - 1))
             last  == s[Len(s)]
         IN  IF last \in Range(front) THEN front ELSE Append(front, last)

\* the orderings of the elements of a sequence without repetitions
Orderings(s) ==
    {p \in [DOMAIN s -> Range(s)] : \A i, j \in DOMAIN s : p[i] = p[j] => i = j}

\* the orderings of a list of records (positions permuted; repetitions allowed)
Reorderings(s) ==
    {[i \in DOMAIN s |-> s[f[i]]] :
        f \in {g \in [DOMAIN s -> DOMAIN s] : \A i, j \in DOMAIN s : g[i] = g[j] => i = j}}

Abs(x) == IF x < 0 THEN 0 - x ELSE x

-----------------------------------------------------------------------------
(* buildTree: the index and the visible set (fetchTokens.ts 99-135) *)

Keys(toks) == {toLowerCase(toks[i].address) : i \in DOMAIN toks}

\* the record Map.set left under key k: the last one of the list with that key
LastWithKey(toks, k) ==
    toks[CHOOSE i \in DOMAIN toks :
            /\ toLowerCase(toks[i].address) = k
            /\ \A j \in DOMAIN toks : toLowerCase(toks[j].address) = k => j <= i]

\* for (const t of tokens) byAddr.set(t.address.toLowerCase(), t)
byAddr(toks) == [k \in Keys(toks) |-> LastWithKey(toks, k)]

\* "Always include the root token": every record that declares zeroAddress
RootSeed(toks) ==
    {toLowerCase(toks[i].address) :
        i \in {j \in DOMAIN toks : toLowerCase(toks[j].quoteToken) = toLowerCase(zeroAddress)}}

\* a mutant of meetsThreshold: the comparison turned round
meetsThresholdInverted(toks, minimum) ==
    InsertionOrder(
        [i \in DOMAIN SelectSeq(toks, LAMBDA t : t.totalSupply <= minimum) |->
            toLowerCase(SelectSeq(toks, LAMBDA t : t.totalSupply <= minimum)[i].address)])

\* Pass 1: the Set meetsThreshold, in its iteration order
meetsThreshold(toks, minimum) ==
    InsertionOrder(
        [i \in DOMAIN SelectSeq(toks, LAMBDA t : t.totalSupply >= minimum) |->
            toLowerCase(SelectSeq(toks, LAMBDA t : t.totalSupply >= minimum)[i].address)])

\* a mutant of AncestorWalk: the token is marked, its ancestors are not
AncestorWalkNoClimb(idx, cur, visible) == visible \cup {cur}

\* Pass 2, one walk: while (cur && !visible.has(cur)) { add; look up; step }
\* idx is byAddr
RECURSIVE AncestorWalk(_, _, _)
AncestorWalk(idx, cur, visible) ==
    IF cur \in visible THEN visible
    ELSE LET added == visible \cup {cur}
         IN  IF cur \notin DOMAIN idx THEN added
             ELSE LET next == toLowerCase(idx[cur].quoteToken)
                  IN  IF next = toLowerCase(zeroAddress) THEN added
                      ELSE AncestorWalk(idx, next, added)

\* a mutant of WalkAll: pass 2 left out
WalkNone(idx, meets, visible) == visible

\* Pass 2: for (const addr of meetsThreshold) walk
RECURSIVE WalkAll(_, _, _)
WalkAll(idx, meets, visible) ==
    IF meets = <<>> THEN visible
    ELSE WalkAll(idx, Tail(meets), AncestorWalk(idx, Head(meets), visible))

\* a mutant of Visible: no filter at any threshold
VisibleUnfiltered(toks, minimum) == RootSeed(toks) \cup Keys(toks)

\* the Set visible after lines 107-135
Visible(toks, minimum) ==
    IF minimum <= 0
    THEN RootSeed(toks) \cup Keys(toks)
    ELSE WalkAll(byAddr(toks), meetsThreshold(toks, minimum), RootSeed(toks))

-----------------------------------------------------------------------------
(* buildTree: the node map and the links (fetchTokens.ts 137-173) *)

\* the keys of nodeMap in iteration order, given the Set visible
NodeKeys(toks, visible) ==
    LET kept == SelectSeq(toks, LAMBDA t : toLowerCase(t.address) \in visible)
    IN  InsertionOrder([i \in DOMAIN kept |-> toLowerCase(kept[i].address)])

\* the node nodeMap holds under key k: a later nodeMap.set of the same key
\* replaces the node, so it is the last record's, which is byAddr's (idx).
\* Its children are kept apart, in Links
NodeOf(idx, k) ==
    [address     |-> idx[k].address,
     quoteToken  |-> idx[k].quoteToken,
     totalSupply |-> idx[k].totalSupply]

\* the placeholder root of lines 164-172; it is filed under key zeroAddress
SyntheticRoot ==
    [address |-> zeroAddress, quoteToken |-> zeroAddress, totalSupply |-> 0]

\* a mutant of ParentKey: the parent's address as the record spells it
ParentKeyAsSpelled(idx, k) == NodeOf(idx, k).quoteToken

\* const parentKey = node.quoteToken.toLowerCase()
ParentKey(idx, k) == toLowerCase(NodeOf(idx, k).quoteToken)

\* a mutant of RootNode: the first node that declares zeroAddress is kept
RootNodeFirst(idx, keys) ==
    LET roots == SelectSeq(keys, LAMBDA k : toLowerCase(idx[k].quoteToken) = toLowerCase(zeroAddress))
    IN  IF roots = <<>> THEN zeroAddress ELSE roots[1]

\* rootNode after the loop of lines 153-161: every node that declares
\* zeroAddress is assigned in turn; zeroAddress stands for null
RootNode(idx, keys) ==
    LET roots == SelectSeq(keys, LAMBDA k : ParentKey(idx, k) = toLowerCase(zeroAddress))
    IN  IF roots = <<>> THEN zeroAddress ELSE roots[Len(roots)]

\* a mutant of Pushed: the root takes in the nodes whose parent has no node
PushedAdopting(idx, keys, k) ==
    SelectSeq(keys, LAMBDA c :
        \/ ParentKey(idx, c) = k
        \/ /\ k = RootNode(idx, keys)
           /\ ParentKey(idx, c) \notin Range(keys) \cup {zeroAddress})

\* the children array of node k after the loop: parent.children.push(node)
Pushed(idx, keys, k) == SelectSeq(keys, LAMBDA c : ParentKey(idx, c) = k)

\* every children array before sorting, the placeholder root's included
Links(idx, keys) ==
    IF RootNode(idx, keys) = zeroAddress
    THEN [k \in Range(keys) \cup {zeroAddress} |->
            IF k = zeroAddress THEN keys ELSE Pushed(idx, keys, k)]
    ELSE [k \in Range(keys) |-> Pushed(idx, keys, k)]

-----------------------------------------------------------------------------
(* buildTree: subtree sums, ordering and the result (fetchTokens.ts 91-95, *)
(* 175-194).  A graph g is [node : key -> node, children : key -> keys].   *)

\* the keys sortChildren(root) can arrive at, root included
RECURSIVE ReachFrom(_, _)
ReachFrom(g, seen) ==
    LET more == seen \cup UNION {Range(g.children[k]) : k \in seen}
    IN  IF more = seen THEN seen ELSE ReachFrom(g, more)

Reach(g, root) == ReachFrom(g, {root})

\* the keys strictly below k
Below(g, k) == ReachFrom(g, Range(g.children[k]))

\* sortChildren, subtreeTvl and countDescendants recurse along children with
\* no visited set: on a children cycle they recurse until the engine raises
\* RangeError (maximum call stack size exceeded)
StackOverflow(g, root) == \E k \in Reach(g, root) : k \in Below(g, k)

RECURSIVE subtreeTvl(_, _)
subtreeTvl(g, k) ==
    LET RECURSIVE Sum(_)
        Sum(cs) == IF cs = <<>> THEN 0 ELSE subtreeTvl(g, Head(cs)) + Sum(Tail(cs))
    IN  g.node[k].totalSupply + Sum(g.children[k])

RECURSIVE countDescendants(_, _)
countDescendants(g, k) ==
    LET RECURSIVE Sum(_)
        Sum(cs) == IF cs = <<>> THEN 0 ELSE countDescendants(g, Head(cs)) + Sum(Tail(cs))
    IN  1 + Sum(g.children[k])

\* Math.abs(tvlDiff) > 0.01, in units of 0.01
Tolerance == 1

\* a mutant of Compare: the node counts decide, whatever the sums
CompareCountOnly(tvlA, countA, tvlB, countB) == countB - countA

\* the comparator handed to Array.prototype.sort, on the subtree sums and
\* node counts of a and b: negative puts a first
Compare(tvlA, countA, tvlB, countB) ==
    LET tvlDiff == tvlB - tvlA
    IN  IF Abs(tvlDiff) > Tolerance THEN tvlDiff ELSE countB - countA

\* ECMAScript's "consistent comparison function" for the elements of S;
\* cmp[a, b] is the comparator's value on a and b
ConsistentCompare(cmp, S) ==
    \A a, b, c \in S :
        /\ (cmp[a, b] = 0 /\ cmp[b, c] = 0) => cmp[a, c] = 0
        /\ (cmp[a, b] < 0 /\ cmp[b, c] < 0) => cmp[a, c] < 0

\* Array.prototype.sort: with a consistent comparator the one stable sorted
\* order; otherwise the order is implementation-defined, any permutation
ArraySort(cmp, s) ==
    IF Len(s) < 2 THEN {s}
    ELSE IF ConsistentCompare(cmp, Range(s))
    THEN {p \in Orderings(s) :
            \A i, j \in DOMAIN p :
                i < j => \/ cmp[p[i], p[j]] < 0
                         \/ /\ cmp[p[i], p[j]] = 0
                            /\ \E m, n \in DOMAIN s : m < n /\ s[m] = p[i] /\ s[n] = p[j]}
    ELSE Orderings(s)

\* node.children.sort((a, b) => ...): the orders it can leave
SortOutcomes(g, s) ==
    LET tvl   == [k \in Range(s) |-> subtreeTvl(g, k)]
        count == [k \in Range(s) |-> countDescendants(g, k)]
        cmp   == [a \in Range(s), b \in Range(s) |->
                     Compare(tvl[a], count[a], tvl[b], count[b])]
    IN  ArraySort(cmp, s)

\* the children functions sortChildren(root) can leave: the array of every
\* node it arrives at is sorted, the others stay as linked
RECURSIVE SortedFrom(_, _, _)
SortedFrom(g, reached, todo) ==
    IF todo = {} THEN {<<>>}
    ELSE LET k == CHOOSE x \in todo : TRUE
         IN  {f @@ (k :> s) :
                 f \in SortedFrom(g, reached, todo \ {k}),
                 s \in IF k \in reached THEN SortOutcomes(g, g.children[k])
                                       ELSE {g.children[k]}}

sortChildren(g, root) == SortedFrom(g, Reach(g, root), DOMAIN g.children)

\* what a call that raised leaves the caller with: no result
Thrown ==
    [threw |-> TRUE, root |-> zeroAddress, node |-> <<>>, children |-> <<>>,
     tokenCount |-> 0 - 1, visibleCount |-> 0 - 1]

\* buildTree(tokens, minTvl): the results the call can return, or Thrown
buildTree(toks, minimum) ==
    LET idx   == byAddr(toks)
        keys  == NodeKeys(toks, Visible(toks, minimum))
        root  == RootNode(idx, keys)
        links == Links(idx, keys)
        g     == [node     |-> [k \in DOMAIN links |->
                                   IF k = zeroAddress THEN SyntheticRoot ELSE NodeOf(idx, k)],
                  children |-> links]
    IN  IF StackOverflow(g, root) THEN {Thrown}
        ELSE {[threw        |-> FALSE,
               root         |-> root,
               node         |-> g.node,
               children     |-> ch,
               tokenCount   |-> Cardinality(DOMAIN idx),
               visibleCount |-> Len(keys)] : ch \in sortChildren(g, root)}

-----------------------------------------------------------------------------
(* The caller of buildTree (App.tsx 334-336, 349, 425-428): the threshold *)
(* comes from the page's parameters, the token list grows by flushes, and  *)
(* the tree is rebuilt from both whenever the list changes.                *)

\* a new address is named by the next unused number: buildTree compares
\* addresses for equality only, so naming them in order of appearance
\* leaves no list out up to renaming
NextAddress(toks) == Cardinality(Keys(toks)) + 1

TreeInit ==
    /\ tokens = <<>>
    /\ minTvl \in Thresholds
    /\ tree \in buildTree(tokens, minTvl)
    /\ networkId = "mainnet"
    /\ loads = 1
    /\ error = "null"
    /\ done = FALSE
    /\ allTokens = <<>>
    /\ pendingRef = <<>>
    /\ flushTimer = FALSE
    /\ timers = 0
    /\ progress = "Fetching genesis tokens..."
    /\ run = [r \in 1..MaxLoads |-> [pc |-> IF r = 1 THEN "genesis" ELSE "idle",
                                     chunks |-> 0, delivered |-> 0, passed |-> <<>>]]
    /\ StreamParked
    /\ SuppliesParked
    /\ ShareParked

\* setAllTokens((prev) => [...prev, ...batch]) and the rebuild
AppendToken ==
    /\ Len(tokens) < MaxLen
    /\ \E t \in TokenInfo :
          /\ toLowerCase(t.address) <= NextAddress(tokens)
          /\ tokens' = Append(tokens, t)
    /\ tree' \in buildTree(tokens', minTvl)
    /\ UNCHANGED minTvl
    /\ UNCHANGED <<loadVars, streamVars, supplyVars, shareVars>>

TreeNext == AppendToken

\* buildTree called as an exported function, on lists whose addresses come
\* in either spelling
CaseInit ==
    /\ tokens = <<>>
    /\ minTvl \in Thresholds
    /\ tree \in buildTree(tokens, minTvl)
    /\ networkId = "mainnet"
    /\ loads = 1
    /\ error = "null"
    /\ done = FALSE
    /\ allTokens = <<>>
    /\ pendingRef = <<>>
    /\ flushTimer = FALSE
    /\ timers = 0
    /\ progress = "Fetching genesis tokens..."
    /\ run = [r \in 1..MaxLoads |-> [pc |-> IF r = 1 THEN "genesis" ELSE "idle",
                                     chunks |-> 0, delivered |-> 0, passed |-> <<>>]]
    /\ StreamParked
    /\ SuppliesParked
    /\ ShareParked

AppendCased ==
    /\ Len(tokens) < MaxCased
    /\ \E t \in CasedTokenInfo :
          /\ toLowerCase(t.address) <= NextAddress(tokens)
          /\ tokens' = Append(tokens, t)
    /\ tree' \in buildTree(tokens', minTvl)
    /\ UNCHANGED minTvl
    /\ UNCHANGED <<loadVars, streamVars, supplyVars, shareVars>>

CaseNext == AppendCased

-----------------------------------------------------------------------------
(* The test lists of the specification fed to buildTree the way App feeds  *)
(* it: the genesis list (the root record) first, App.tsx 370-371, then the  *)
(* streamed records in any order of arrival, App.tsx 349.  Values are in    *)
(* units of 0.01: 500 is 50000, 100.02 is 10002.                            *)

Rec(a, q, v) ==
    [address |-> getAddress(a), quoteToken |-> getAddress(q), totalSupply |-> v]

\* the chain A -> B -> C -> root: root is 1, A is 2, B is 3, C is 4
ChainValues == {0, 1000, 50000}

ChainRecords ==
    {Rec(1, zeroAddress, v) : v \in ChainValues} \cup {Rec(4, 1, v) : v \in ChainValues}
        \cup {Rec(3, 4, v) : v \in ChainValues} \cup {Rec(2, 3, v) : v \in ChainValues}

\* the reference scenario: root is 5 (value 0), A is 6 (parent root, value
\* 500), B is 7 (parent A, value 10)
ReferenceRecords == {Rec(5, zeroAddress, 0), Rec(6, 5, 50000), Rec(7, 6, 1000)}

\* the tie-break example: the parent 8, its child 9 of value 100.02, and
\* its child 10 of value 100.00 with the four children 11..14 of value 0
TieBreakRecords ==
    {Rec(8, zeroAddress, 0), Rec(9, 8, 10002), Rec(10, 8, 10000)}
        \cup {Rec(k, 10, 0) : k \in 11..14}

ScenarioFamilies == {ChainRecords, ReferenceRecords, TieBreakRecords}

\* the batches onBatch can deliver of the list F: a record on its own, and
\* the four children 11..14, created in one block range, together
ScenarioBatches(F) ==
    IF F = TieBreakRecords
    THEN {<<Rec(9, 8, 10002)>>, <<Rec(10, 8, 10000)>>, [i \in 1..4 |-> Rec(10 + i, 10, 0)]}
    ELSE {<<t>> : t \in F}

\* the thresholds of the tests: none, 10 and 100
ScenarioThresholds == {0, 1000, 10000}

ScenarioInit ==
    /\ tokens = <<>>
    /\ minTvl \in ScenarioThresholds
    /\ tree \in buildTree(tokens, minTvl)
    /\ networkId = "mainnet"
    /\ loads = 1
    /\ error = "null"
    /\ done = FALSE
    /\ allTokens = <<>>
    /\ pendingRef = <<>>
    /\ flushTimer = FALSE
    /\ timers = 0
    /\ progress = "Fetching genesis tokens..."
    /\ run = [r \in 1..MaxLoads |-> [pc |-> IF r = 1 THEN "genesis" ELSE "idle",
                                     chunks |-> 0, delivered |-> 0, passed |-> <<>>]]
    /\ StreamParked
    /\ SuppliesParked
    /\ ShareParked

\* setAllTokens(genesis): the root record of one of the lists, and the rebuild
GenesisArrives ==
    /\ tokens = <<>>
    /\ \E F \in ScenarioFamilies :
          \E t \in F :
              /\ toLowerCase(t.quoteToken) = zeroAddress
              /\ tokens' = <<t>>
    /\ tree' \in buildTree(tokens', minTvl)
    /\ UNCHANGED minTvl
    /\ UNCHANGED <<loadVars, streamVars, supplyVars, shareVars>>

\* setAllTokens((prev) => [...prev, ...batch]): a batch of the same list
\* whose addresses have not arrived yet, and the rebuild
BatchArrives ==
    /\ tokens # <<>>
    /\ \E F \in ScenarioFamilies :
          \E batch \in ScenarioBatches(F) :
              /\ tokens[1] \in F
              /\ Keys(batch) \cap Keys(tokens) = {}
              /\ tokens' = tokens \o batch
    /\ tree' \in buildTree(tokens', minTvl)
    /\ UNCHANGED minTvl
    /\ UNCHANGED <<loadVars, streamVars, supplyVars, shareVars>>

ScenarioNext ==
    \/ GenesisArrives
    \/ BatchArrives

-----------------------------------------------------------------------------
(* App: load, flush, scheduleFlush (App.tsx 342-400).  A record in flight  *)
(* or in the store is written [run, chunk]: the call of load that fetched  *)
(* it and the chunk it came with (0 for the genesis list).  run[r] is the  *)
(* position of the r-th call of load: pc is the await it is suspended at,  *)
(* chunks the number of block ranges of its stream, delivered the number   *)
(* of onBatch calls its stream has made, passed the records those calls   *)
(* were given.  flushTimer tells whether flushTimer.current holds a timer  *)
(* and timers counts the timeouts that are pending.                        *)

Networks == {"mainnet", "testnet"}

NoError == "null"

Idle == [pc |-> "idle", chunks |-> 0, delivered |-> 0, passed |-> <<>>]

\* a mutant of Flushed: the pending records are dropped
FlushedDropping(store, pending) == store

\* flush(): move the pending records to allTokens, if there are any
Flushed(store, pending) == IF pending = <<>> THEN store ELSE store \o pending

\* a mutant of scheduleFlush: a timeout is set whether or not one is held
scheduleFlushUnguarded(held, pending) == [held |-> TRUE, pending |-> pending + 1]

\* scheduleFlush(): set a 600 ms timeout unless flushTimer.current holds one
scheduleFlush(held, pending) ==
    IF held THEN [held |-> held, pending |-> pending]
            ELSE [held |-> TRUE, pending |-> pending + 1]

\* a mutant of LoadCalled: the store is not emptied
LoadCalledKeepsStore ==
    /\ loads' = loads + 1
    /\ error' = NoError
    /\ done' = FALSE
    /\ pendingRef' = <<>>
    /\ progress' = "Fetching genesis tokens..."
    /\ run' = [run EXCEPT ![loads + 1] = [pc |-> "genesis", chunks |-> 0, delivered |-> 0, passed |-> <<>>]]
    /\ UNCHANGED <<allTokens, flushTimer, timers>>
    /\ UNCHANGED <<treeVars, streamVars, supplyVars, shareVars>>

\* the synchronous head of load(), up to await fetchGenesisTokens(network)
LoadCalled ==
    /\ loads' = loads + 1
    /\ error' = NoError
    /\ done' = FALSE
    /\ allTokens' = <<>>
    /\ pendingRef' = <<>>
    /\ progress' = "Fetching genesis tokens..."
    /\ run' = [run EXCEPT ![loads + 1] = [pc |-> "genesis", chunks |-> 0, delivered |-> 0, passed |-> <<>>]]
    /\ UNCHANGED <<flushTimer, timers>>
    /\ UNCHANGED <<treeVars, streamVars, supplyVars, shareVars>>

\* the state once the component has mounted and its effect has called load
LoadInit ==
    /\ networkId \in Networks
    /\ loads = 1
    /\ error = NoError
    /\ done = FALSE
    /\ allTokens = <<>>
    /\ pendingRef = <<>>
    /\ flushTimer = FALSE
    /\ timers = 0
    /\ progress = "Fetching genesis tokens..."
    /\ run = [r \in 1..MaxLoads |->
                IF r = 1 THEN [pc |-> "genesis", chunks |-> 0, delivered |-> 0, passed |-> <<>>] ELSE Idle]
    /\ tokens = <<>>
    /\ minTvl = 0
    /\ tree \in buildTree(tokens, minTvl)
    /\ StreamParked
    /\ SuppliesParked
    /\ ShareParked

\* the network toggle of the main view: setNetworkId(net) gives load a new
\* identity and the effect calls it.  The main view is rendered only with no
\* error and a non-empty allTokens
SwitchNetwork ==
    /\ loads < MaxLoads
    /\ error = NoError
    /\ allTokens # <<>>
    /\ \E net \in Networks : net # networkId /\ networkId' = net
    /\ LoadCalled

\* the Retry button of the error view: onClick={load}
Retry ==
    /\ loads < MaxLoads
    /\ error # NoError
    /\ LoadCalled
    /\ UNCHANGED networkId

\* await fetchGenesisTokens(network) resolves in call r
GenesisResolved(r) ==
    /\ run[r].pc = "genesis"
    /\ allTokens' = <<[run |-> r, chunk |-> 0]>>
    /\ progress' = "Streaming factory tokens..."
    /\ run' = [run EXCEPT ![r].pc = "blockNumber"]
    /\ UNCHANGED <<done, error, networkId, pendingRef, flushTimer, timers, loads, treeVars, streamVars, supplyVars, shareVars>>

\* await fetchGenesisTokens(network) rejects in call r: the catch of load
GenesisRejected(r) ==
    /\ run[r].pc = "genesis"
    /\ error' = "genesis fetch failed"
    /\ run' = [run EXCEPT ![r].pc = "failed"]
    /\ UNCHANGED <<allTokens, progress, done, networkId, pendingRef, flushTimer, timers, loads, treeVars, streamVars, supplyVars, shareVars>>

\* await client.getBlockNumber() resolves in the stream of call r: the
\* ranges are built, at least one since 0 <= latest
BlockNumberResolved(r) ==
    /\ run[r].pc = "blockNumber"
    /\ \E n \in 1..MaxChunks : run' = [run EXCEPT ![r].pc = "stream", ![r].chunks = n]
    /\ UNCHANGED <<allTokens, progress, done, error, networkId, pendingRef, flushTimer, timers, loads, treeVars, streamVars, supplyVars, shareVars>>

\* await client.getBlockNumber() rejects: streamFactoryTokens rejects and
\* the catch of load records the error
BlockNumberRejected(r) ==
    /\ run[r].pc = "blockNumber"
    /\ error' = "block number read failed"
    /\ run' = [run EXCEPT ![r].pc = "failed"]
    /\ UNCHANGED <<allTokens, progress, done, networkId, pendingRef, flushTimer, timers, loads, treeVars, streamVars, supplyVars, shareVars>>

\* onBatch(newTokens, progressMsg) of call r for its next chunk, with
\* scheduleFlush() when the chunk brought tokens
OnBatch(r) ==
    /\ run[r].pc = "stream"
    /\ run[r].delivered < run[r].chunks
    /\ progress' = "Blocks"
    /\ \E newTokens \in {<<>>, <<[run |-> r, chunk |-> run[r].delivered + 1]>>} :
          /\ run' = [run EXCEPT ![r].delivered = @ + 1, ![r].passed = @ \o newTokens]
          /\ IF newTokens # <<>>
             THEN /\ pendingRef' = pendingRef \o newTokens
                  /\ flushTimer' = scheduleFlush(flushTimer, timers).held
                  /\ timers' = scheduleFlush(flushTimer, timers).pending
             ELSE UNCHANGED <<pendingRef, flushTimer, timers>>
    /\ UNCHANGED <<allTokens, done, error, networkId, loads, treeVars, streamVars, supplyVars, shareVars>>

\* onDone() of call r, after the onBatch of its every chunk: the timer is
\* cleared, flush() runs and done is set
OnDone(r) ==
    /\ run[r].pc = "stream"
    /\ run[r].delivered = run[r].chunks
    /\ flushTimer' = FALSE
    /\ timers' = IF flushTimer THEN timers - 1 ELSE timers
    /\ allTokens' = Flushed(allTokens, pendingRef)
    /\ pendingRef' = <<>>
    /\ done' = TRUE
    /\ run' = [run EXCEPT ![r].pc = "done"]
    /\ UNCHANGED <<progress, error, networkId, loads, treeVars, streamVars, supplyVars, shareVars>>

\* the 600 ms timer of scheduleFlush fires
FlushTimerFires ==
    /\ timers > 0
    /\ timers' = timers - 1
    /\ flushTimer' = FALSE
    /\ allTokens' = Flushed(allTokens, pendingRef)
    /\ pendingRef' = <<>>
    /\ UNCHANGED <<progress, done, error, networkId, loads, run, treeVars, streamVars, supplyVars, shareVars>>

LoadNext ==
    \/ SwitchNetwork
    \/ Retry
    \/ FlushTimerFires
    \/ \E r \in 1..MaxLoads :
          \/ GenesisResolved(r)
          \/ GenesisRejected(r)
          \/ BlockNumberResolved(r)
          \/ BlockNumberRejected(r)
          \/ OnBatch(r)
          \/ OnDone(r)

-----------------------------------------------------------------------------
(* The shareable view (App.tsx 14-24 parseInitialParams, 432-443            *)
(* handleShare).  In this part minTvl is a number in units of 0.001, so     *)
(* that thresholds between two hundredths exist, as the slider's            *)
(* positionToTvl (App.tsx 43-48) produces them.  A string is the sequence   *)
(* of its characters; the two-digit decimal string toFixed(2) writes is     *)
(* named by its number of hundredths.  The query string is the set of keys  *)
(* URLSearchParams holds with the value of each: URLSearchParams escapes    *)
(* and unescapes a value without changing it.  params.get of an absent key  *)
(* gives null, which the code treats as it treats the empty string.         *)

\* largest threshold of a shared view, in units of 0.001
MaxTvl == 25

\* longest symbol of a shared view, and most symbols it excludes
MaxSymbol == 2

MaxExcluded == 2

\* the characters of a symbol: a letter and the comma
Alphabet == {"a", ","}

Symbols == UNION {[1..n -> Alphabet] : n \in 0..MaxSymbol}

ExcludedLists == UNION {[1..n -> Symbols] : n \in 0..MaxExcluded}

\* excluded.join(",")
RECURSIVE join(_)
join(list) ==
    IF list = <<>> THEN <<>>
    ELSE IF Len(list) = 1 THEN list[1]
    ELSE list[1] \o <<",">> \o join(Tail(list))

\* exc.split(","): the pieces between the commas, empty pieces included
RECURSIVE split(_)
split(str) ==
    IF \A i \in DOMAIN str : str[i] # "," THEN <<str>>
    ELSE LET i == CHOOSE c \in DOMAIN str :
                     str[c] = "," /\ \A j \in 1..(c - 1) : str[j] # ","
         IN  <<SubSeq(str, 1, i - 1)>> \o split(SubSeq(str, i + 1, Len(str)))

\* .filter(Boolean) on strings: the empty ones go
filterBoolean(list) == SelectSeq(list, LAMBDA x : x # <<>>)

\* minTvl.toFixed(2): the nearest number of hundredths; half-way between two
\* the binary value of the number decides, which is either side of the half
toFixed(v) ==
    IF v % 10 = 5 THEN {v \div 10, (v \div 10) + 1} ELSE {(v + 5) \div 10}

\* parseFloat of a two-digit decimal string, in units of 0.001
parseFloat(hundredths) == hundredths * 10

\* the URLSearchParams of handleShare for a view
URLSearchParams(net, tvl, exc) ==
    [keys    : {(IF net # "mainnet" THEN {"network"} ELSE {})
                   \cup (IF tvl > 0 THEN {"minTvl"} ELSE {})
                   \cup (IF exc # <<>> THEN {"exclude"} ELSE {})},
     network : {IF net # "mainnet" THEN net ELSE ""},
     minTvl  : IF tvl > 0 THEN toFixed(tvl) ELSE {0},
     exclude : {IF exc # <<>> THEN join(exc) ELSE <<>>}]

\* the view of a page in use: any network, threshold and exclusions
ShareInit ==
    /\ networkId \in Networks
    /\ minTvl \in 0..MaxTvl
    /\ excluded \in ExcludedLists
    /\ search = <<>>
    /\ initialParams = <<>>
    /\ tokens = <<>>
    /\ tree \in buildTree(tokens, minTvl)
    /\ loads = 1
    /\ error = NoError
    /\ done = FALSE
    /\ allTokens = <<>>
    /\ pendingRef = <<>>
    /\ flushTimer = FALSE
    /\ timers = 0
    /\ progress = "Fetching genesis tokens..."
    /\ run = [r \in 1..MaxLoads |->
                IF r = 1 THEN [pc |-> "genesis", chunks |-> 0, delivered |-> 0, passed |-> <<>>] ELSE Idle]
    /\ StreamParked
    /\ SuppliesParked

\* handleShare(): the link for the view, copied to the clipboard
handleShare ==
    /\ search = <<>>
    /\ \E params \in URLSearchParams(networkId, minTvl, excluded) : search' = <<params>>
    /\ UNCHANGED <<excluded, initialParams>>
    /\ UNCHANGED <<treeVars, loadVars, streamVars, supplyVars>>

\* parseInitialParams() of the page the link opens
parseInitialParams ==
    /\ search # <<>>
    /\ initialParams = <<>>
    /\ LET params == search[1]
           tvl    == parseFloat(IF "minTvl" \in params.keys THEN params.minTvl ELSE 0)
           exc    == IF "exclude" \in params.keys THEN params.exclude ELSE <<>>
           net    == IF "network" \in params.keys THEN params.network ELSE "null"
       IN  initialParams' =
              <<[minTvl   |-> IF tvl > 0 THEN tvl ELSE 0,
                 excluded |-> IF exc # <<>> THEN filterBoolean(split(exc)) ELSE <<>>,
                 network  |-> IF net = "testnet" THEN "testnet" ELSE "mainnet"]>>
    /\ UNCHANGED <<excluded, search>>
    /\ UNCHANGED <<treeVars, loadVars, streamVars, supplyVars>>

ShareNext ==
    \/ handleShare
    \/ parseInitialParams

-----------------------------------------------------------------------------
(* streamFactoryTokens (fetchTokens.ts 224-306): the block ranges, fetchRange *)
(* with its bisection, and the pool of workers.  The chain behind the        *)
(* transport is chain: latest is the block height, limit the largest block   *)
(* range getLogs accepts ("max block range"), heavy a block with more events *)
(* than getLogs returns ("max results"; -1 for none), created[c] the number  *)
(* of TokenCreated events in the first block of the c-th range.  A worker is *)
(* [pc, idx, stack, raw, at]: the await it is suspended at, the range it     *)
(* claimed, the sub-ranges its fetchRange call has still to fetch (the first *)
(* is the one being fetched), the number of events fetchRange has gathered,  *)
(* and the loop index of its batchFetchSupplies call.                        *)

CHUNK == 100000

\* a mutant of CONCURRENCY: one worker more
ConcurrencyFive == 4 + 1

CONCURRENCY == 4

BATCH == 500

Min(a, b) == IF a < b THEN a ELSE b

\* a mutant of Ranges: a range ends on the first block of the next
RangesOverlapping(latest) ==
    [c \in 1..(latest \div CHUNK + 1) |->
        <<(c - 1) * CHUNK, Min((c - 1) * CHUNK + CHUNK, latest)>>]

\* lines 232-235: [start, Math.min(start + CHUNK - 1, latest)] for every
\* start = 0, CHUNK, 2 CHUNK, ... <= latest
Ranges(latest) ==
    [c \in 1..(latest \div CHUNK + 1) |->
        <<(c - 1) * CHUNK, Min((c - 1) * CHUNK + CHUNK - 1, latest)>>]

\* block heights that give one range of one block, two ranges, the second
\* of two blocks, and MaxRanges ranges, the last of one block
Latests == {0, CHUNK + 1, (MaxRanges - 1) * CHUNK}

Chains ==
    UNION {[latest  : {l},
            limit   : {CHUNK, CHUNK \div 2},
            heavy   : {0 - 1, l},
            created : [1..(l \div CHUNK + 1) -> {0, BATCH + 1}]] : l \in Latests}

\* the transport refuses a getLogs call on from..to with a range-size error
RangeTooLarge(from, to) ==
    \/ to - from + 1 > chain.limit
    \/ chain.heavy \in from..to

\* the number of events getLogs returns for from..to
RECURSIVE LogsIn(_, _, _)
LogsIn(from, to, c) ==
    IF c > Len(chain.created) THEN 0
    ELSE (IF (c - 1) * CHUNK \in from..to THEN chain.created[c] ELSE 0)
            + LogsIn(from, to, c + 1)

\* the ranges getLogs has answered, r added: kept in the order of their
\* first block, a range answered twice listed twice
Returned(rs, r) ==
    SelectSeq(rs, LAMBDA x : x[1] <= r[1]) \o <<r>> \o SelectSeq(rs, LAMBDA x : x[1] > r[1])

Finished == [pc |-> "finished", idx |-> 0 - 1, stack |-> <<>>, raw |-> 0, at |-> 0]

\* a worker at the head of its while loop when rangeIdx is rIdx: it claims
\* the range rIdx and calls fetchRange, or leaves the loop
WorkerLoop(rs, rIdx) ==
    IF rIdx < Len(rs)
    THEN [pc |-> "getLogs", idx |-> rIdx, stack |-> <<rs[rIdx + 1]>>, raw |-> 0, at |-> 0]
    ELSE Finished

StreamInit ==
    /\ chain \in Chains
    /\ main = "getBlockNumber"
    /\ ranges = <<>>
    /\ rangeIdx = 0
    /\ totalFetched = 0
    /\ workers = [w \in 1..CONCURRENCY |-> Finished]
    /\ batchCount = <<>>
    /\ claimed = <<>>
    /\ onDoneCount = 0
    /\ failures = 0
    /\ retrieved = <<>>
    /\ SuppliesParked
    /\ ShareParked
    /\ tokens = <<>>
    /\ minTvl = 0
    /\ tree \in buildTree(tokens, minTvl)
    /\ networkId = "mainnet"
    /\ loads = 1
    /\ error = "null"
    /\ done = FALSE
    /\ allTokens = <<>>
    /\ pendingRef = <<>>
    /\ flushTimer = FALSE
    /\ timers = 0
    /\ progress = "Fetching genesis tokens..."
    /\ run = [r \in 1..MaxLoads |-> [pc |-> IF r = 1 THEN "genesis" ELSE "idle",
                                     chunks |-> 0, delivered |-> 0, passed |-> <<>>]]

\* await client.getBlockNumber() resolves: the ranges are laid out and the
\* workers are started; each runs up to its first await, so worker w finds
\* rangeIdx = w - 1
GetBlockNumberReturns ==
    /\ main = "getBlockNumber"
    /\ main' = "running"
    /\ ranges' = Ranges(chain.latest)
    /\ totalFetched' = 0
    /\ workers' = [w \in 1..CONCURRENCY |-> WorkerLoop(ranges', w - 1)]
    /\ rangeIdx' = Min(CONCURRENCY, Len(ranges'))
    /\ claimed' = [c \in 0..(Len(ranges') - 1) |->
                     IF c < CONCURRENCY THEN <<c + 1>> ELSE <<>>]
    /\ batchCount' = [c \in 0..(Len(ranges') - 1) |-> 0]
    /\ UNCHANGED <<chain, onDoneCount, failures, retrieved>>
    /\ UNCHANGED <<treeVars, loadVars, supplyVars, shareVars>>

\* await client.getBlockNumber() rejects: streamFactoryTokens rejects
GetBlockNumberThrows ==
    /\ main = "getBlockNumber"
    /\ main' = "rejected"
    /\ UNCHANGED <<chain, ranges, rangeIdx, totalFetched, workers, batchCount, claimed,
                   onDoneCount, failures, retrieved>>
    /\ UNCHANGED <<treeVars, loadVars, supplyVars, shareVars>>

\* lines 298-300 and 281-283: worker w calls onBatch with n records for its
\* range and goes round its while loop
FinishChunk(w, n) ==
    /\ totalFetched' = totalFetched + n
    /\ batchCount' = [batchCount EXCEPT ![workers[w].idx] = @ + 1]
    /\ workers' = [workers EXCEPT ![w] = WorkerLoop(ranges, rangeIdx)]
    /\ rangeIdx' = IF rangeIdx < Len(ranges) THEN rangeIdx + 1 ELSE rangeIdx
    /\ claimed' = IF rangeIdx < Len(ranges)
                  THEN [claimed EXCEPT ![rangeIdx] = Append(@, w)]
                  ELSE claimed

\* worker w's getLogs call has given n events for the sub-range at the head
\* of its stack: the next sub-range is fetched, or fetchRange returns and
\* the worker goes on at line 280
SubRangeDone(w, n) ==
    LET me    == workers[w]
        total == me.raw + n
    IN  IF Tail(me.stack) # <<>>
        THEN /\ workers' = [workers EXCEPT ![w] = [me EXCEPT !.stack = Tail(@), !.raw = total]]
             /\ UNCHANGED <<rangeIdx, totalFetched, batchCount, claimed>>
        ELSE IF total = 0
        THEN FinishChunk(w, 0)
        ELSE /\ workers' = [workers EXCEPT ![w] =
                               [me EXCEPT !.pc = "readContract", !.stack = <<>>, !.raw = total]]
             /\ UNCHANGED <<rangeIdx, totalFetched, batchCount, claimed>>

\* client.getLogs resolves (lines 241-256)
GetLogsReturns(w) ==
    /\ main = "running"
    /\ workers[w].pc = "getLogs"
    /\ LET top == Head(workers[w].stack)
       IN  /\ ~RangeTooLarge(top[1], top[2])
           /\ SubRangeDone(w, LogsIn(top[1], top[2], 1))
           /\ retrieved' = Returned(retrieved, top)
    /\ UNCHANGED <<chain, main, ranges, onDoneCount, failures>>
    /\ UNCHANGED <<treeVars, loadVars, supplyVars, shareVars>>

\* client.getLogs rejects with "max block range" or "max results" (lines
\* 259-263): the range is halved, the lower half is fetched first
GetLogsRangeError(w) ==
    /\ main = "running"
    /\ workers[w].pc = "getLogs"
    /\ Len(workers[w].stack) < MaxStack
    /\ LET top == Head(workers[w].stack)
           mid == (top[1] + top[2]) \div 2
       IN  /\ RangeTooLarge(top[1], top[2])
           /\ workers' = [workers EXCEPT ![w].stack =
                             <<<<top[1], mid>>, <<mid + 1, top[2]>>>> \o Tail(@)]
    /\ UNCHANGED <<chain, main, ranges, rangeIdx, totalFetched, batchCount, claimed,
                   onDoneCount, failures, retrieved>>
    /\ UNCHANGED <<treeVars, loadVars, supplyVars, shareVars>>

\* client.getLogs rejects with another error, or a log does not map (lines
\* 265-266): the sub-range gives no events
GetLogsThrows(w) ==
    /\ main = "running"
    /\ workers[w].pc = "getLogs"
    /\ failures < MaxFailures
    /\ failures' = failures + 1
    /\ SubRangeDone(w, 0)
    /\ UNCHANGED <<chain, main, ranges, onDoneCount, retrieved>>
    /\ UNCHANGED <<treeVars, loadVars, supplyVars, shareVars>>

\* one client.readContract of batchFetchSupplies settles, resolved or
\* rejected (lines 54-85): the next slice is sent, or the call returns and
\* the worker merges and calls onBatch (lines 291-299)
ReadContractSettles(w) ==
    /\ main = "running"
    /\ workers[w].pc = "readContract"
    /\ IF workers[w].at + BATCH < workers[w].raw
       THEN /\ workers' = [workers EXCEPT ![w].at = @ + BATCH]
            /\ UNCHANGED <<rangeIdx, totalFetched, batchCount, claimed>>
       ELSE FinishChunk(w, workers[w].raw)
    /\ UNCHANGED <<chain, main, ranges, onDoneCount, failures, retrieved>>
    /\ UNCHANGED <<treeVars, loadVars, supplyVars, shareVars>>

\* a mutant of PromiseAllResolves: onDone as soon as one worker has returned
PromiseAnyResolves ==
    /\ main = "running"
    /\ \E w \in 1..CONCURRENCY : workers[w].pc = "finished"
    /\ main' = "done"
    /\ onDoneCount' = onDoneCount + 1
    /\ UNCHANGED <<chain, ranges, rangeIdx, totalFetched, workers, batchCount, claimed,
                   failures, retrieved>>
    /\ UNCHANGED <<treeVars, loadVars, supplyVars, shareVars>>

\* await Promise.all(workers) resolves and onDone() is called (lines 304-305)
PromiseAllResolves ==
    /\ main = "running"
    /\ \A w \in 1..CONCURRENCY : workers[w].pc = "finished"
    /\ main' = "done"
    /\ onDoneCount' = onDoneCount + 1
    /\ UNCHANGED <<chain, ranges, rangeIdx, totalFetched, workers, batchCount, claimed,
                   failures, retrieved>>
    /\ UNCHANGED <<treeVars, loadVars, supplyVars, shareVars>>

StreamNext ==
    \/ GetBlockNumberReturns
    \/ GetBlockNumberThrows
    \/ PromiseAllResolves
    \/ \E w \in 1..CONCURRENCY :
          \/ GetLogsReturns(w)
          \/ GetLogsRangeError(w)
          \/ GetLogsThrows(w)
          \/ ReadContractSettles(w)

-----------------------------------------------------------------------------
(* batchFetchSupplies (fetchTokens.ts 49-87) and the merge of its result    *)
(* (lines 291-296).  The tokens of a range are numbered 1..n in the order of *)
(* their events; token k has the address getAddress(k).  An entry of the     *)
(* multicall response is [success, length, value]: length is the length of   *)
(* returnData ("0x" has 2) and value the uint256 it encodes, -1 when it does *)
(* not decode.  A supply is written in units of 10^-6, the unit of the       *)
(* uint256, so parseFloat(formatUnits(raw, 6)) is written raw.               *)

\* the numbers of addresses handed to batchFetchSupplies: none, one, a full
\* slice, a slice and one more, two slices and one more
Sizes == {0, 1, BATCH, BATCH + 1, 2 * BATCH + 1}

\* totalSupply() of token k on the chain
OnChain(k) == (k % 3) + 1

\* what one entry of a multicall response can be
Kinds == {"ok", "reverted", "empty", "garbage"}

ReturnData(kind, k) ==
    [success |-> kind # "reverted",
     length  |-> IF kind \in {"empty", "reverted"} THEN 2 ELSE 66,
     value   |-> IF kind = "ok" THEN OnChain(k) ELSE 0 - 1]

\* addresses.slice(i, i + BATCH)
Slice(as, from) == SubSeq(as, from + 1, Min(from + BATCH, Len(as)))

\* the positions of a slice whose entries are chosen freely: its first and
\* its last; every other entry is "ok"
Probes(batch) == {1, Len(batch)}

\* a mutant of SupplyOf: an entry that does not decode gives no number
SupplyOfUnguarded(item) ==
    IF item.success /\ item.length > 2 THEN item.value ELSE 0

\* lines 65-79: the number stored for one entry of the response
SupplyOf(item) ==
    IF item.success /\ item.length > 2
    THEN IF item.value < 0 THEN 0 ELSE item.value
    ELSE 0

\* result.set(batch[j].toLowerCase(), values[j]) for every j
SetAll(map, batch, values) ==
    LET keys == {toLowerCase(batch[j]) : j \in DOMAIN batch}
    IN  [x \in DOMAIN map \cup keys |->
            IF x \in keys
            THEN values[CHOOSE j \in DOMAIN batch : toLowerCase(batch[j]) = x]
            ELSE map[x]]

\* the state batchFetchSupplies is called in (a call with no addresses
\* returns at line 51)
SuppliesInit ==
    /\ \E n \in Sizes :
          /\ addresses = [k \in 1..n |-> getAddress(k)]
          /\ supplyPc = IF n = 0 THEN "returned" ELSE "readContract"
    /\ offset = 0
    /\ result = <<>>
    /\ responses = <<>>
    /\ StreamParked
    /\ ShareParked
    /\ tokens = <<>>
    /\ minTvl = 0
    /\ tree \in buildTree(tokens, minTvl)
    /\ networkId = "mainnet"
    /\ loads = 1
    /\ error = "null"
    /\ done = FALSE
    /\ allTokens = <<>>
    /\ pendingRef = <<>>
    /\ flushTimer = FALSE
    /\ timers = 0
    /\ progress = "Fetching genesis tokens..."
    /\ run = [r \in 1..MaxLoads |-> [pc |-> IF r = 1 THEN "genesis" ELSE "idle",
                                     chunks |-> 0, delivered |-> 0, passed |-> <<>>]]

\* the for loop goes on with the next slice, or the call returns
NextSlice ==
    /\ offset' = offset + BATCH
    /\ supplyPc' = IF offset + BATCH < Len(addresses) THEN "readContract" ELSE "returned"

\* client.readContract resolves with one entry for every address of the
\* slice (lines 57-80)
ReadContractResolves ==
    /\ supplyPc = "readContract"
    /\ LET batch == Slice(addresses, offset)
       IN  \E kinds \in [Probes(batch) -> Kinds] :
              LET kindAt(j) == IF j \in DOMAIN kinds THEN kinds[j] ELSE "ok"
                  returnData == [j \in DOMAIN batch |->
                                   ReturnData(kindAt(j), toLowerCase(batch[j]))]
                  values == [j \in DOMAIN batch |-> SupplyOf(returnData[j])]
              IN  /\ result' = SetAll(result, batch, values)
                  /\ responses' = Append(responses,
                        [start |-> offset, size |-> Len(batch), rejected |-> FALSE,
                         kinds |-> kinds])
    /\ NextSlice
    /\ UNCHANGED addresses
    /\ UNCHANGED <<treeVars, loadVars, streamVars, shareVars>>

\* client.readContract rejects (lines 81-84): 0 for every address of the slice
ReadContractRejects ==
    /\ supplyPc = "readContract"
    /\ LET batch == Slice(addresses, offset)
           values == [j \in DOMAIN batch |-> 0]
       IN  /\ result' = SetAll(result, batch, values)
           /\ responses' = Append(responses,
                 [start |-> offset, size |-> Len(batch), rejected |-> TRUE,
                  kinds |-> <<>>])
    /\ NextSlice
    /\ UNCHANGED addresses
    /\ UNCHANGED <<treeVars, loadVars, streamVars, shareVars>>

SuppliesNext ==
    \/ ReadContractResolves
    \/ ReadContractRejects

\* lines 291-296: the totalSupply of the records handed to onBatch,
\* supplies.get(t.address.toLowerCase()) ?? 0
Merged ==
    [k \in DOMAIN addresses |->
        IF toLowerCase(addresses[k]) \in DOMAIN result
        THEN result[toLowerCase(addresses[k])]
        ELSE 0]

-----------------------------------------------------------------------------
(* Vocabulary of the properties of buildTree *)

\* the keys of the records that got a node (nodeMap) at threshold t
VisibleAt(t) == Range(NodeKeys(tokens, Visible(tokens, t)))

UniqueAddresses(toks) == Cardinality(Keys(toks)) = Len(toks)

DeclaresRoot(t) == toLowerCase(t.quoteToken) = zeroAddress

\* the keys of the nodes of a returned tree, the placeholder root left out
TreeKeys(r) == DOMAIN r.node \ {zeroAddress}

\* the declared parent of a node of a returned tree
DeclaredParent(r, k) == toLowerCase(r.node[k].quoteToken)

\* the proper ancestors of key k along the declared parents of the records
\* (unique addresses): the least set closed under "parent of"
RECURSIVE UpClosure(_, _)
UpClosure(toks, S) ==
    LET more == S \cup {toLowerCase(toks[i].quoteToken) :
                          i \in {j \in DOMAIN toks : toLowerCase(toks[j].address) \in S}}
    IN  IF more = S THEN S ELSE UpClosure(toks, more)

Ancestors(toks, i) == UpClosure(toks, {toLowerCase(toks[i].quoteToken)})

\* the position at which key k first occurs in the list
FirstIndex(toks, k) ==
    CHOOSE i \in DOMAIN toks :
        /\ toLowerCase(toks[i].address) = k
        /\ \A j \in DOMAIN toks : toLowerCase(toks[j].address) = k => i <= j

\* the list with only the last record of every address kept
DedupLast(toks) ==
    LET keep == {i \in DOMAIN toks :
                    \A j \in DOMAIN toks :
                        toLowerCase(toks[j].address) = toLowerCase(toks[i].address) => j <= i}
        RECURSIVE Pick(_)
        Pick(i) == IF i > Len(toks) THEN <<>>
                   ELSE IF i \in keep THEN <<toks[i]>> \o Pick(i + 1) ELSE Pick(i + 1)
    IN  Pick(1)

\* parent-child links of a result, without the order of the children
LinkSet(r) == UNION {{<<k, c>> : c \in Range(r.children[k])} : k \in DOMAIN r.children}

\* the keys a returned tree holds: those reachable from its root
InTree(r) == Reach(r, r.root)

\* subtree sum and node count of key k in a returned tree
TreeTvl(r, k) == subtreeTvl(r, k)
TreeCount(r, k) == countDescendants(r, k)

-----------------------------------------------------------------------------
(* Properties *)

\* C1 (as claimed): every record that got a node and does not declare
\* zeroAddress has its declared parent among the records that got a node.
C1_ParentVisible ==
    ~tree.threw =>
        \A k \in TreeKeys(tree) :
            DeclaredParent(tree, k) # zeroAddress => DeclaredParent(tree, k) \in TreeKeys(tree)

\* C2 (as claimed): buildTree returns a result for every record list and
\* threshold; it never raises.
C2_Total == ~tree.threw

\* C3 (as claimed): once load has been called again, no callback of an
\* earlier call changes the store; in particular no record fetched by an
\* earlier call is in allTokens.
C3_NoStaleRecord == \A i \in DOMAIN allTokens : allTokens[i].run = loads

\* C4 (as claimed): buildTree returns a root for every input; the root is a
\* record that declares zeroAddress when some record does, and the
\* placeholder (zeroAddress, value 0) when none does.
C4_RootExists ==
    /\ ~tree.threw
    /\ (\E i \in DOMAIN tokens : DeclaresRoot(tokens[i]))
          => /\ tree.root \in TreeKeys(tree)
             /\ DeclaredParent(tree, tree.root) = zeroAddress
    /\ (\A i \in DOMAIN tokens : ~DeclaresRoot(tokens[i]))
          => /\ tree.root = zeroAddress
             /\ tree.node[zeroAddress] = SyntheticRoot

\* C5: for a list with unique addresses: at a threshold <= 0 every record
\* gets a node and visibleCount = tokenCount; at a threshold > 0 a record
\* gets a node exactly when it declares zeroAddress, or its value is at
\* least the threshold, or it is an ancestor of a record whose value is.
C5_VisibleSet ==
    UniqueAddresses(tokens) =>
        /\ minTvl <= 0 =>
              /\ VisibleAt(minTvl) = Keys(tokens)
              /\ ~tree.threw => tree.visibleCount = tree.tokenCount
        /\ minTvl > 0 =>
              \A i \in DOMAIN tokens :
                  toLowerCase(tokens[i].address) \in VisibleAt(minTvl)
                    <=> \/ DeclaresRoot(tokens[i])
                        \/ tokens[i].totalSupply >= minTvl
                        \/ \E j \in DOMAIN tokens :
                              /\ tokens[j].totalSupply >= minTvl
                              /\ toLowerCase(tokens[i].address) \in Ancestors(tokens, j)
        /\ ~tree.threw => TreeKeys(tree) = VisibleAt(minTvl)

\* C5 witness: a positive threshold keeps a record only as the ancestor of
\* a record that meets it, and filters another record out.
C5_Witness ==
    /\ UniqueAddresses(tokens)
    /\ minTvl > 0
    /\ ~tree.threw
    /\ \E i, j \in DOMAIN tokens :
          /\ toLowerCase(tokens[i].address) \in TreeKeys(tree)
          /\ ~DeclaresRoot(tokens[i])
          /\ tokens[i].totalSupply < minTvl
          /\ toLowerCase(tokens[j].address) \notin TreeKeys(tree)

\* C6: for thresholds t1 <= t2 the records that get a node at t2 are among
\* those that get one at t1, so visibleCount at t2 is at most that at t1;
\* the visibleCount returned is the number of records that got a node.
C6_Monotone ==
    LET at == [t \in Thresholds |-> VisibleAt(t)]
    IN  /\ \A t1, t2 \in Thresholds :
              t1 <= t2 => /\ at[t2] \subseteq at[t1]
                          /\ Cardinality(at[t2]) <= Cardinality(at[t1])
        /\ ~tree.threw => tree.visibleCount = Cardinality(at[minTvl])

\* C6 witness: the tree was built at a threshold that filters out records
\* a lower threshold keeps.
C6_Witness ==
    /\ ~tree.threw
    /\ tree.visibleCount > 0
    /\ \E t \in Thresholds : t < minTvl /\ Cardinality(VisibleAt(t)) > tree.visibleCount

\* C7 (as claimed): for siblings x listed before y in the returned tree:
\* sums that differ by more than 0.01 have the larger first; sums within
\* 0.01 have the subtree with at least as many nodes first.
C7_ChildOrder ==
    ~tree.threw =>
        \A k \in InTree(tree) :
            \A i, j \in DOMAIN tree.children[k] :
                i < j =>
                    LET x == tree.children[k][i]
                        y == tree.children[k][j]
                    IN  IF Abs(TreeTvl(tree, x) - TreeTvl(tree, y)) > Tolerance
                        THEN TreeTvl(tree, x) > TreeTvl(tree, y)
                        ELSE TreeCount(tree, x) >= TreeCount(tree, y)

\* C8 (as claimed): every reordering of a list with unique addresses gives
\* the same result at the same threshold.  Stated here for the well-formed
\* lists only: exactly one record declares zeroAddress and every other
\* declared parent is in the list.
C8_OrderIndependent ==
    (/\ UniqueAddresses(tokens)
     /\ Cardinality({i \in DOMAIN tokens : DeclaresRoot(tokens[i])}) = 1
     /\ \A i \in DOMAIN tokens :
           DeclaresRoot(tokens[i]) \/ toLowerCase(tokens[i].quoteToken) \in Keys(tokens))
    => \A p \in Reorderings(tokens) : buildTree(p, minTvl) = {tree}

\* C9 (as claimed): a list with repeated addresses gives the same root,
\* nodes, links and counts as the list with only the last record of every
\* address kept.  Stated here for the lists in which the records of one
\* address agree on the declared parent, and compared when both calls return.
C9_LastWins ==
    \A r \in buildTree(DedupLast(tokens), minTvl) :
        (/\ ~r.threw /\ ~tree.threw
         /\ \A i, j \in DOMAIN tokens :
               tokens[i].address = tokens[j].address => tokens[i].quoteToken = tokens[j].quoteToken)
        =>
            /\ r.root = tree.root
            /\ r.node = tree.node
            /\ LinkSet(r) = LinkSet(tree)
            /\ r.tokenCount = tree.tokenCount
            /\ r.visibleCount = tree.visibleCount

\* the nodes of a returned tree that declare zeroAddress
RootCandidates(r) == {k \in TreeKeys(r) : DeclaredParent(r, k) = zeroAddress}

DanglingKeys(toks) ==
    {k \in Keys(toks) :
        toLowerCase(LastWithKey(toks, k).quoteToken) \notin Keys(toks) \cup {zeroAddress}}

\* some record (the last of its key) declares zeroAddress
HasRootRecord(toks) == \E k \in Keys(toks) : DeclaresRoot(LastWithKey(toks, k))

\* no record is its own ancestor along the declared parents
NoParentLoop(toks) ==
    \A i \in DOMAIN toks : toLowerCase(toks[i].address) \notin Ancestors(toks, i)

\* C11 (as claimed): the children of a synthesized root are exactly the
\* nodes whose declared parent has no node; a node whose parent has a node
\* is not a direct child of the synthesized root.
C11_SyntheticChildren ==
    (~tree.threw /\ tree.root = zeroAddress) =>
        /\ Range(tree.children[zeroAddress])
              = {k \in TreeKeys(tree) : DeclaredParent(tree, k) \notin TreeKeys(tree)}
        /\ \A k \in TreeKeys(tree) :
              DeclaredParent(tree, k) \in TreeKeys(tree)
                 => k \notin Range(tree.children[zeroAddress])

\* C12 (as claimed): visibleCount is the number of record nodes reachable
\* from the returned root along children, the synthesized root not counted.
C12_CountsTreeNodes ==
    ~tree.threw => tree.visibleCount = Cardinality(InTree(tree) \ {zeroAddress})

Arrived(F) == tokens # <<>> /\ tokens[1] \in F /\ Len(tokens) = Cardinality({t.address : t \in F})

\* the records of the list whose value meets the threshold are those of keys S
OnlyMeet(S) ==
    \A i \in DOMAIN tokens :
        tokens[i].totalSupply >= minTvl <=> toLowerCase(tokens[i].address) \in S

\* C14 (as claimed): on the chain A -> B -> C -> root (keys 2, 3, 4, 1) at a
\* threshold > 0 that only C's value meets, A, B, C and root all get a node.
C14_ChainAllVisible ==
    (Arrived(ChainRecords) /\ minTvl > 0 /\ OnlyMeet({4})) =>
        /\ ~tree.threw
        /\ TreeKeys(tree) = {1, 2, 3, 4}

\* C14 (amended): at a threshold > 0 that only C's value meets, C and root
\* get a node and A and B do not: the tree is root -> C, visibleCount 2.
\* It is at a threshold that only A's value meets that all four get a node
\* and the tree is root -> C -> B -> A.
C14_ChainUpward ==
    Arrived(ChainRecords) /\ minTvl > 0 =>
        /\ OnlyMeet({4}) =>
              /\ ~tree.threw
              /\ TreeKeys(tree) = {1, 4}
              /\ tree.visibleCount = 2
              /\ tree.root = 1
              /\ tree.children = (1 :> <<4>> @@ 4 :> <<>>)
        /\ OnlyMeet({2}) =>
              /\ ~tree.threw
              /\ TreeKeys(tree) = {1, 2, 3, 4}
              /\ tree.visibleCount = 4
              /\ tree.root = 1
              /\ tree.children = (1 :> <<4>> @@ 4 :> <<3>> @@ 3 :> <<2>> @@ 2 :> <<>>)

\* C14 witness: the whole chain at a threshold > 0 that only C's value meets.
C14_Witness ==
    /\ Arrived(ChainRecords)
    /\ minTvl > 0
    /\ OnlyMeet({4})
    /\ ~tree.threw
    /\ tree.visibleCount = 2

\* siblings x and y of the returned tree with subtree sums 100.02 and 100.00
\* and subtree node counts 1 and 5
TieBreakPair(x, y) ==
    /\ ~tree.threw
    /\ \E k \in InTree(tree) : {x, y} \subseteq Range(tree.children[k])
    /\ TreeTvl(tree, x) = 10002 /\ TreeCount(tree, x) = 1
    /\ TreeTvl(tree, y) = 10000 /\ TreeCount(tree, y) = 5

\* the position of child c in the children array of its parent
ChildIndex(r, c) ==
    LET k == CHOOSE q \in DOMAIN r.children : c \in Range(r.children[q])
    IN  CHOOSE i \in DOMAIN r.children[k] : r.children[k][i] = c

\* C15 (as claimed): of two siblings with sums 100.02 and 100.00 and node
\* counts 1 and 5, the one with sum 100.00 and 5 nodes is listed first.
C15_TieBreakWins ==
    \A x, y \in TreeKeys(tree) :
        TieBreakPair(x, y) => ChildIndex(tree, y) < ChildIndex(tree, x)

\* C15 (amended): the sums differ by 0.02, more than the 0.01 tolerance, so
\* the sibling with sum 100.02 is listed first, whatever the node counts.
C15_LargerSumFirst ==
    \A x, y \in TreeKeys(tree) :
        TieBreakPair(x, y) => ChildIndex(tree, x) < ChildIndex(tree, y)

\* C15 witness: the whole tie-break list, unfiltered.
C15_Witness ==
    /\ Arrived(TieBreakRecords)
    /\ TieBreakPair(9, 10)

\* C16: the list root, A, B (keys 5, 6, 7; values 0, 500, 10; root first)
\* gives root -> A -> B with visibleCount 3 at threshold 0 and root -> A
\* with visibleCount 2 at threshold 100; tokenCount is 3 in both.
C16_Reference ==
    Arrived(ReferenceRecords) =>
        /\ \A r \in buildTree(tokens, 0) :
              /\ ~r.threw
              /\ r.root = 5
              /\ r.children = (5 :> <<6>> @@ 6 :> <<7>> @@ 7 :> <<>>)
              /\ r.visibleCount = 3
              /\ r.tokenCount = 3
        /\ \A r \in buildTree(tokens, 10000) :
              /\ ~r.threw
              /\ r.root = 5
              /\ r.children = (5 :> <<6>> @@ 6 :> <<>>)
              /\ r.visibleCount = 2
              /\ r.tokenCount = 3
        /\ tree \in buildTree(tokens, minTvl)

\* C16 witness: the three records in the order of the scenario, at 100.
C16_Witness ==
    /\ tokens = <<Rec(5, zeroAddress, 0), Rec(6, 5, 50000), Rec(7, 6, 1000)>>
    /\ minTvl = 10000
    /\ tree.visibleCount = 2

\* the ranges a worker has claimed and onBatch has not been called for
InFlight == {c \in DOMAIN claimed : claimed[c] # <<>> /\ batchCount[c] = 0}

\* C17: onBatch is called at most once for a range and onDone at most once;
\* when the workers have all returned, and when onDone has been called,
\* onBatch has been called exactly once for every range, the ranges with no
\* events and the ranges whose getLogs call failed included.
C17_CallbackProtocol ==
    /\ onDoneCount <= 1
    /\ \A c \in DOMAIN batchCount : batchCount[c] <= 1
    /\ (main = "running" /\ \A w \in DOMAIN workers : workers[w].pc = "finished")
          => \A c \in DOMAIN batchCount : batchCount[c] = 1
    /\ onDoneCount = 1
          => /\ main = "done"
             /\ DOMAIN batchCount = 0..(Len(ranges) - 1)
             /\ \A c \in DOMAIN batchCount : batchCount[c] = 1
    /\ main = "done" => onDoneCount = 1

\* C17 witness: onDone has been called in a run of more ranges than
\* workers, with a range of no events, a range with events, and a getLogs
\* call that failed.
C17_Witness ==
    /\ onDoneCount = 1
    /\ Len(ranges) > 4
    /\ failures > 0
    /\ totalFetched > 0
    /\ \E c \in DOMAIN chain.created : chain.created[c] = 0

\* C18: every range below rangeIdx has been claimed by exactly one worker
\* and no other range has been claimed; two workers never hold the same
\* range; at most 4 ranges are in flight; when the run is done every range
\* has been claimed.
C18_WorkerPool ==
    main \in {"running", "done"} =>
        /\ \A c \in DOMAIN claimed : Len(claimed[c]) = (IF c < rangeIdx THEN 1 ELSE 0)
        /\ \A w \in DOMAIN workers :
              workers[w].pc # "finished" => claimed[workers[w].idx] = <<w>>
        /\ \A v, w \in DOMAIN workers :
              (v # w /\ workers[v].pc # "finished" /\ workers[w].pc # "finished")
                 => workers[v].idx # workers[w].idx
        /\ InFlight = {workers[w].idx : w \in {v \in DOMAIN workers : workers[v].pc # "finished"}}
        /\ Cardinality(InFlight) <= 4
        /\ main = "done" => rangeIdx = Len(ranges)

\* C18 witness: four ranges are in flight, one of them claimed by a worker
\* that has finished another range before, and workers are suspended at
\* different awaits.
C18_Witness ==
    /\ main = "running"
    /\ Cardinality(InFlight) = 4
    /\ \E c \in InFlight : c >= 4
    /\ \E v, w \in DOMAIN workers :
          workers[v].pc = "getLogs" /\ workers[w].pc = "readContract"

\* C20 (as claimed): a range-size error is recovered by fetching the two
\* halves of the failing range, each a range of at least one block and
\* smaller than the failing one, which is why fetchRange returns after
\* finitely many getLogs calls whatever errors the transport reports, and
\* the run calls onDone.
C20_Bisects ==
    [][\A w \in DOMAIN workers :
          (/\ workers[w].pc = "getLogs"
           /\ workers'[w].pc = "getLogs"
           /\ Len(workers'[w].stack) > Len(workers[w].stack))
          => LET failing == Head(workers[w].stack)
                 lower   == workers'[w].stack[1]
                 upper   == workers'[w].stack[2]
             IN  /\ lower[1] <= lower[2]
                 /\ upper[1] <= upper[2]
                 /\ lower[2] - lower[1] < failing[2] - failing[1]
                 /\ upper[2] - upper[1] < failing[2] - failing[1]]_vars

\* the answer of the transport that covers token k, and the kind of its
\* entry for k
ResponseFor(k) ==
    responses[CHOOSE x \in DOMAIN responses :
                 k \in (responses[x].start + 1)..(responses[x].start + responses[x].size)]

KindFor(k) ==
    LET resp == ResponseFor(k)
        j    == k - resp.start
    IN  IF j \in DOMAIN resp.kinds THEN resp.kinds[j] ELSE "ok"

\* C19: no bulk call carries more than 500 addresses; a rejected call and a
\* failed entry do not stop the loop: when batchFetchSupplies has returned,
\* every slice has been sent, every record has a number as its value, 0 for
\* the tokens of a rejected call and for the tokens whose entry failed, was
\* empty or did not decode, and the fetched value for every other token.
C19_SupplyDefaults ==
    /\ \A x \in DOMAIN responses :
          /\ responses[x].size <= 500
          /\ responses[x].size >= 1
          /\ responses[x].start = (x - 1) * 500
    /\ supplyPc = "returned" =>
          /\ Len(responses) = (Len(addresses) + 499) \div 500
          /\ \A k \in DOMAIN addresses :
                /\ Merged[k] \in Nat
                /\ Merged[k] = (IF ResponseFor(k).rejected \/ KindFor(k) # "ok"
                                THEN 0 ELSE OnChain(k))

\* C19 witness: three bulk calls, the first rejected, the second with a
\* failed entry and an entry that does not decode, all tokens of the third
\* fetched.
C19_Witness ==
    /\ supplyPc = "returned"
    /\ Len(responses) = 3
    /\ responses[1].rejected
    /\ ~responses[2].rejected
    /\ responses[2].kinds[1] = "reverted"
    /\ responses[2].kinds[500] = "garbage"
    /\ ~responses[3].rejected
    /\ Merged[1001] = OnChain(1001)

\* C21: in a call of load that was not restarted, once done is set the store
\* is the genesis record followed by the records passed to onBatch, each
\* once and in the order they were passed, the pending buffer is empty and
\* no flush timer is armed.
C21_FinalFlush ==
    (loads = 1 /\ done) =>
        /\ allTokens = <<[run |-> 1, chunk |-> 0]>> \o run[1].passed
        /\ pendingRef = <<>>
        /\ ~flushTimer
        /\ timers = 0

\* a single call of load is done after every chunk brought a record
C21_Witness ==
    /\ loads = 1
    /\ done
    /\ Len(run[1].passed) = MaxChunks

\* C22: a call of load whose genesis fetch or block-height read fails sets
\* the error, which stays set until load is called again, and that call
\* invokes neither onBatch nor onDone afterwards; a retry clears the error
\* and the done flag, empties the store and the pending buffer and starts a
\* new call at the genesis fetch.
C22_FatalAndRetry ==
    [][/\ \A r \in 1..MaxLoads :
            /\ (run[r].pc # "failed" /\ run'[r].pc = "failed")
                  => (run[r].pc \in {"genesis", "blockNumber"} /\ error' # NoError)
            /\ (run[r].pc = "failed") => (run'[r] = run[r])
       /\ (error # NoError /\ loads' = loads) => (error' # NoError)
       /\ (error # NoError /\ loads' # loads)
             => /\ loads' = loads + 1
                /\ error' = NoError
                /\ ~done'
                /\ allTokens' = <<>>
                /\ pendingRef' = <<>>
                /\ run'[loads'].pc = "genesis"]_vars

\* the first call failed and the retry has just restarted at the genesis fetch
C22_Witness ==
    /\ loads = 2
    /\ run[1].pc = "failed"
    /\ run[2].pc = "genesis"
    /\ error = NoError
    /\ allTokens = <<>>

\* C26: at most one flush timeout is pending, and it is the one
\* flushTimer.current holds; an onBatch call while it is held sets no other;
\* records are in the pending buffer only while the timeout is pending and
\* leave it only into the store or when load is called again; when the
\* timeout fires the whole pending buffer is appended to the store in one
\* update, and the store is unchanged when the buffer is empty.
C26_DebouncedFlush ==
    [][/\ timers' <= 1
       /\ flushTimer' <=> (timers' = 1)
       /\ (pendingRef' # <<>>) => flushTimer'
       /\ (flushTimer /\ \E r \in 1..MaxLoads : run'[r].delivered > run[r].delivered)
             => (timers' = timers /\ flushTimer')
       /\ (loads' = loads /\ pendingRef' # <<>>)
             => (Len(pendingRef') >= Len(pendingRef)
                 /\ SubSeq(pendingRef', 1, Len(pendingRef)) = pendingRef)
       /\ (loads' = loads /\ pendingRef # <<>> /\ pendingRef' = <<>>)
             => (allTokens' = allTokens \o pendingRef)
       /\ (timers' < timers /\ run' = run)
             => /\ allTokens' = allTokens \o pendingRef
                /\ pendingRef' = <<>>
                /\ ~flushTimer']_vars

\* two records wait in the pending buffer for the one timeout
C26_Witness ==
    /\ timers = 1
    /\ flushTimer
    /\ Len(pendingRef) = 2


\* the list with every address and parentAddress in its lower-case spelling
Lowered(toks) ==
    [i \in DOMAIN toks |->
        [address     |-> toLowerCase(toks[i].address),
         quoteToken  |-> toLowerCase(toks[i].quoteToken),
         totalSupply |-> toks[i].totalSupply]]

\* what a result says apart from the spelling of its nodes' addresses: the
\* node set, the root, the children arrays in their order, the two counts
Shape(r) ==
    [threw        |-> r.threw,
     root         |-> r.root,
     nodes        |-> DOMAIN r.node,
     values       |-> [k \in DOMAIN r.node |-> r.node[k].totalSupply],
     children     |-> r.children,
     tokenCount   |-> r.tokenCount,
     visibleCount |-> r.visibleCount]

\* C23: the results buildTree can return for a list are, up to the spelling
\* of the nodes' addresses, the results it can return for the same list with
\* every address and parentAddress in lower case, so lists that differ only
\* in letter case have the same node set, links, child order, root and counts.
C23_CaseInsensitive ==
    /\ {Shape(r) : r \in buildTree(tokens, minTvl)}
          = {Shape(r) : r \in buildTree(Lowered(tokens), minTvl)}
    /\ Shape(tree) \in {Shape(r) : r \in buildTree(Lowered(tokens), minTvl)}

\* the root declares the sentinel spelled with a capital X, and its child
\* names it in lower case while the root's own address is checksummed
C23_Witness ==
    /\ Len(tokens) = 2
    /\ tokens[1].address = getAddress(1)
    /\ tokens[1].quoteToken = zeroAddress + CaseShift
    /\ tokens[2].address = getAddress(2)
    /\ tokens[2].quoteToken = 1
    /\ ~tree.threw
    /\ tree.root = 1
    /\ tree.children[1] = <<2>>

\* C25 (as claimed): parseInitialParams applied to the query string that
\* handleShare builds for a view gives the view's network, its minTvl and its
\* list of excluded symbols.
C25_RoundTrip ==
    (initialParams # <<>>) =>
        initialParams[1] = [minTvl |-> minTvl, excluded |-> excluded, network |-> networkId]

\* the number of ways down the children arrays from node n to node k in at
\* most d steps; a key listed twice in an array counts twice
RECURSIVE PathCount(_, _, _, _)
PathCount(r, n, k, d) ==
    LET RECURSIVE Sum(_)
        Sum(cs) == IF cs = <<>> THEN 0
                   ELSE PathCount(r, Head(cs), k, d - 1) + Sum(Tail(cs))
    IN  (IF n = k THEN 1 ELSE 0) + (IF d = 0 THEN 0 ELSE Sum(r.children[n]))

\* record i is its own ancestor along the declared parents
OnParentCycle(toks, i) == toLowerCase(toks[i].address) \in Ancestors(toks, i)

\* record i or one of its ancestors declares a parent that no record has
BelowDangling(toks, i) == ~(Ancestors(toks, i) \subseteq Keys(toks) \cup {zeroAddress})

\* C27: for a list with unique addresses in which a record declares the
\* sentinel, buildTree returns, its root is a record's node and in no
\* children array, every node reachable from the root is reached by exactly
\* one path, every reachable node but the root is listed once, by the node of
\* its declared parent and by no other, and no record on a parent cycle or
\* below a dangling reference is reachable.
C27_TreeShape ==
    (UniqueAddresses(tokens) /\ \E i \in DOMAIN tokens : DeclaresRoot(tokens[i])) =>
        /\ ~tree.threw
        /\ tree.root \in TreeKeys(tree)
        /\ \A k \in DOMAIN tree.children : tree.root \notin Range(tree.children[k])
        /\ \A k \in InTree(tree) :
              PathCount(tree, tree.root, k, Cardinality(DOMAIN tree.node)) = 1
        /\ \A c \in InTree(tree) \ {tree.root} :
              \A k \in DOMAIN tree.children :
                 Cardinality({i \in DOMAIN tree.children[k] : tree.children[k][i] = c})
                    = IF k = DeclaredParent(tree, c) THEN 1 ELSE 0
        /\ \A i \in DOMAIN tokens :
              (OnParentCycle(tokens, i) \/ BelowDangling(tokens, i))
                 => toLowerCase(tokens[i].address) \notin InTree(tree)

\* a root with one child, and a record that is its own parent: it has a node
\* and is not reachable
C27_Witness ==
    /\ Len(tokens) = 3
    /\ UniqueAddresses(tokens)
    /\ ~tree.threw
    /\ tree.root \in TreeKeys(tree)
    /\ \E c \in TreeKeys(tree) : tree.children[tree.root] = <<c>>
    /\ \E i \in DOMAIN tokens :
          /\ OnParentCycle(tokens, i)
          /\ toLowerCase(tokens[i].address) \in TreeKeys(tree)
          /\ toLowerCase(tokens[i].address) \notin InTree(tree)

\* the block ranges rs, in order, are not empty, follow one another with no
\* gap and no overlap, start at block 0 and end at block latest
Partitions(rs, latest) ==
    /\ rs # <<>>
    /\ rs[1][1] = 0
    /\ rs[Len(rs)][2] = latest
    /\ \A i \in DOMAIN rs : rs[i][1] <= rs[i][2]
    /\ \A i \in 1..(Len(rs) - 1) : rs[i + 1][1] = rs[i][2] + 1

\* C28: the ranges laid out for 0..latest follow one another with no gap and
\* no overlap from block 0 to block latest and each spans at most CHUNK
\* blocks; a bisection replaces the range from..to by from..mid and
\* mid+1..to with from <= mid <= to, which share no block and together are
\* from..to; no block is in two ranges that getLogs has answered, and when
\* the run is done and no getLogs call failed with another error the
\* answered ranges are exactly the blocks 0..latest, each once.
C28_BlockCoverage ==
    [][/\ (ranges' # <<>>)
             => /\ Partitions(ranges', chain'.latest)
                /\ \A c \in DOMAIN ranges' : ranges'[c][2] - ranges'[c][1] + 1 <= CHUNK
       /\ \A w \in DOMAIN workers :
             (/\ DOMAIN workers' = DOMAIN workers
              /\ workers[w].pc = "getLogs"
              /\ Len(workers'[w].stack) = Len(workers[w].stack) + 1)
                => LET top  == Head(workers[w].stack)
                       low  == workers'[w].stack[1]
                       high == workers'[w].stack[2]
                   IN  /\ low[1] = top[1]
                       /\ high[2] = top[2]
                       /\ high[1] = low[2] + 1
                       /\ top[1] <= low[2]
                       /\ low[2] <= top[2]
                       /\ Tail(Tail(workers'[w].stack)) = Tail(workers[w].stack)
       /\ \A i \in 1..(Len(retrieved') - 1) : retrieved'[i][2] < retrieved'[i + 1][1]
       /\ (main' = "done" /\ failures' = 0) => Partitions(retrieved', chain'.latest)]_vars

\* a run of several ranges is done, no call failed, and ranges were bisected
C28_Witness ==
    /\ main = "done"
    /\ failures = 0
    /\ Len(ranges) > 1
    /\ Len(retrieved) > Len(ranges)

-----------------------------------------------------------------------------
(* Specifications *)

\* buildTree under every token list and threshold of the bounds
Spec == TreeInit /\ [][TreeNext]_vars

\* App's ingestion under every interleaving of its callbacks
SpecLoad == LoadInit /\ [][LoadNext]_vars

\* buildTree on the test lists of the specification, record by record
SpecScenario == ScenarioInit /\ [][ScenarioNext]_vars

\* one call of batchFetchSupplies under every answer of the transport
SpecSupplies == SuppliesInit /\ [][SuppliesNext]_vars

\* one run of streamFactoryTokens under every interleaving of its workers
SpecStream == StreamInit /\ [][StreamNext]_vars

\* buildTree under every spelling of the addresses of short lists
SpecCase == CaseInit /\ [][CaseNext]_vars

\* a view shared by link and opened
SpecShare == ShareInit /\ [][ShareNext]_vars

====
